---- MODULE Spec2Model ----
(*****************************************************************************)
(* Construction inventory application: the spreadsheet registers, the        *)
(* stock aggregation (calculate_material_stock and friends), the             *)
(* reconciliation page, expiry classification and the st.cache_data layer.   *)
(*                                                                           *)
(* A sheet is modelled by the sequence of its data rows (row 1, the header   *)
(* row, is not part of the sequence).  A DataFrame built from a sheet with   *)
(* no data rows has no columns, so a column access on it raises KeyError;    *)
(* that is what Len(df) = 0 stands for in the guards below.                  *)
(* The 'Outward Register' is also kept row by row with its row 1             *)
(* (outwardSheet), for the operations that rewrite the header row; outward   *)
(* is the sequence of rows the Issue Material form appended to it.           *)
(* Quantities and rates are integers; a quotient is kept as a fraction       *)
(* [num, den] and compared by cross-multiplication.                          *)
(* Operations that take several backend requests and are claimed about       *)
(* under concurrency (the status update, get_or_create_worksheet) are also   *)
(* modelled request by request, with the position of each session kept in    *)
(* indentSession and headerCall.  The master sheets and 'Daily Closing'      *)
(* are modelled with the utils and manager functions that write them.        *)
(*****************************************************************************)
EXTENDS Integers, Sequences, FiniteSets, TLC

\* ---------------------------------------------------------------- bounds
\* Handler invocations and sheet edits per behaviour.
MaxOps == 4
\* Last calendar day the clock reaches, and the hours one clock step takes.
MaxDay == 1
TickHours == 12
\* Writes per behaviour while the cache is observed, and the seconds one
\* cache clock step takes.
MaxCacheWrites == 2
TickSeconds == 300

\* ---------------------------------------------------------------- inputs
\* MATERIALS_LIST and GRADES_LIST, as sets.
MATERIALS_LIST ==
    {"Steel", "Cement", "Sand", "Gravel", "Bricks", "Tiles", "Paint",
     "Wire", "Pipe", "Wood", "Glass", "Aluminum", "Concrete", "Marble",
     "Stone", "Plaster", "Bitumen", "Asphalt", "Ceramic", "Granite"}
GRADES_LIST ==
    {"8mm", "10mm", "12mm", "16mm", "20mm", "25mm", "32mm",
     "OPC 53", "OPC 43", "PPC", "PSC", "Fine", "Coarse", "Medium",
     "20kg", "25kg", "40kg", "50kg", "5 Litre", "10 Litre", "20 Litre",
     "Grade A", "Grade B", "Premium", "Standard"}

Materials == {"Steel", "Cement"}
\* "" is the absent grade (Python None / empty cell).
Grades == {"", "10mm"}
\* Quantities, rates and limits are kept small so that the products of the
\* fraction comparisons stay far inside 32-bit integers.
Quantities == {4, 10}
Rates == {6, 9}
Units == {"Kg", "Tons"}
LimitValues == {0, 6}
Actuals == {0, 6}
\* An expiry date is a calendar day number; NoDate is the blank cell and
\* Unparseable a cell holding text that is no date: both are what
\* pd.to_datetime(errors='coerce') turns into NaT.
NoDate == [valid |-> FALSE, blank |-> TRUE, day |-> 0]
Date(d) == [valid |-> TRUE, blank |-> FALSE, day |-> d]
Unparseable == [valid |-> FALSE, blank |-> FALSE, day |-> 0]
ExpiryDays == {0, 1, 8, 31}
VendorNames == {"Acme", "Birla"}

VARIABLES
    inward,     \* data rows of 'Inward Register'
    outward,    \* data rows of 'Outward Register'
    returns,    \* data rows of 'Returns Register'
    damage,     \* data rows of 'Damage Loss Register'
    limits,     \* data rows of 'Low Stock Limits'
    recon,      \* data rows of 'Reconciliation Register'
    lastRecon,  \* the reconciliation_data list and outcome of the last submission
    vendor,     \* data rows of 'Vendor Master'
    boq,        \* data rows of 'BOQ Mapping'
    indent,     \* data rows of 'Indent Register'
    transfer,   \* data rows of 'Material Transfer Register'
    scrap,      \* data rows of 'Scrap Register'
    dfCache,    \* st.cache_data entries of the three DataFrame readers
    listCache,  \* st.cache_data entries of the three list readers
    writes,     \* number of writes made through the application so far
    ops,        \* number of handler invocations and sheet edits so far
    nowDay,     \* wall clock: calendar day number
    nowHour,    \* wall clock: hour of the day
    outwardSheet, \* the 'Outward Register' worksheet, row by row, row 1 included
    expiryView, \* what the Expiry Management page last read and displayed
    indentSession, \* a session between its read of 'Indent Register' and its update_cell
    headerCall, \* per session: how far its get_or_create_worksheet('Outward Register') is
    materialMaster, \* data rows of 'Material Master'
    gradeMaster, \* data rows of 'Grade Master'
    masterInit, \* init_sheets_manager has run initialize_default_materials_and_grades
    lastAdd,    \* the (success, message) the last add_new_material / add_new_grade returned
    dailyClosing, \* data rows of 'Daily Closing'
    lastSave    \* what the last save_daily_closing returned and deleted

ledgerVars == <<inward, outward, returns, damage, limits>>
reconVars == <<recon, lastRecon>>
otherVars == <<vendor, boq, indent, transfer, scrap>>
cacheVars == <<dfCache, listCache, writes>>
clockVars == <<nowDay, nowHour>>
sheetVars == <<outwardSheet>>
masterVars == <<materialMaster, gradeMaster, masterInit, lastAdd>>
closingVars == <<dailyClosing, lastSave>>
sessionVars == <<expiryView, indentSession, headerCall, masterVars, closingVars>>
vars == <<inward, outward, returns, damage, limits, recon, lastRecon,
          vendor, boq, indent, transfer, scrap,
          dfCache, listCache, writes, ops, nowDay, nowHour, outwardSheet,
          expiryView, indentSession, headerCall,
          materialMaster, gradeMaster, masterInit, lastAdd, dailyClosing, lastSave>>

\* ------------------------------------------------------------ row helpers
RECURSIVE SumQuantity(_)
SumQuantity(rows) ==
    IF rows = <<>> THEN 0 ELSE Head(rows).Quantity + SumQuantity(Tail(rows))

RECURSIVE SumAmountCalc(_)
SumAmountCalc(rows) ==
    IF rows = <<>> THEN 0
    ELSE Head(rows).Quantity * Head(rows).Rate + SumAmountCalc(Tail(rows))


\* Fractions: [num, den] with den > 0.
Frac(n, d) == [num |-> n, den |-> d]
FracZero == Frac(0, 1)
FracEq(a, b) == a.num * b.den = b.num * a.den
FracLess(a, b) == a.num * b.den < b.num * a.den

\* --------------------------------------------------------------- cache
DfReaders == {"inward", "vendor", "outward"}
ListReaders == {"vendors", "materials", "grades"}

\* An absent st.cache_data entry.
\* stamp and ok record, for an entry, the value of `writes` when its data
\* was fetched and whether that fetch succeeded; fetched is, for a list,
\* the seconds since the DataFrame it was derived from was fetched.
NoDfEntry == [valid |-> FALSE, age |-> 0, stamp |-> 0, ok |-> FALSE, data |-> <<>>]
NoListEntry ==
    [valid |-> FALSE, age |-> 0, fetched |-> 0, stamp |-> 0, ok |-> FALSE,
     data |-> [sorted |-> FALSE, items |-> {}]]

\* clear_cache() without its get_cached_inward_data.clear() line.
clear_cache_df_KeepsInward ==
    [f \in DfReaders |-> IF f = "inward" THEN dfCache[f] ELSE NoDfEntry]

\* clear_cache(): .clear() on each of the six cached functions.
clear_cache_df == [f \in DfReaders |-> NoDfEntry]
clear_cache_list == [f \in ListReaders |-> NoListEntry]

\* The part of a submit handler that follows a successful append_row:
\* clear_cache() (the success message and st.rerun() change no state here).
AfterWrite ==
    /\ dfCache' = clear_cache_df
    /\ listCache' = clear_cache_list
    /\ writes' = writes + 1
    /\ ops' = ops + 1

\* ------------------------------------------------- stock aggregation
\* The value calculate_material_stock returns from its except branch.
None ==
    [ok |-> FALSE, total_inward |-> 0, total_outward |-> 0, current_stock |-> 0,
     avg_rate |-> FracZero, stock_value |-> FracZero, unit |-> ""]

\* "Filter by material and grade": `if material_grade:` is false for None
\* and for "", and the else branch filters by material alone.
FilterByKey(df, material_name, material_grade) ==
    IF material_grade # ""
    THEN SelectSeq(df, LAMBDA r : r.Material = material_name /\ r.Grade = material_grade)
    ELSE SelectSeq(df, LAMBDA r : r.Material = material_name)

\* current_stock = total_inward - total_outward
CurrentStockOf(total_inward, total_outward) == total_inward - total_outward

calculate_material_stock(material_name, material_grade) ==
    IF Len(inward) = 0 \/ Len(outward) = 0
    THEN None   \* inward_df['Material'] / outward_df['Material'] raises KeyError
    ELSE IF \E i \in 1..Len(FilterByKey(inward, material_name, material_grade)) :
               ~FilterByKey(inward, material_name, material_grade)[i].Numeric
    THEN None   \* inward_filtered['Quantity'].astype(float) raises ValueError
    ELSE
      LET inward_filtered == FilterByKey(inward, material_name, material_grade)
          outward_filtered == FilterByKey(outward, material_name, material_grade)
          total_inward == SumQuantity(inward_filtered)
          total_outward == SumQuantity(outward_filtered)
          current_stock == CurrentStockOf(total_inward, total_outward)
          total_amount == SumAmountCalc(inward_filtered)
      IN IF inward_filtered # <<>> /\ total_inward > 0
         THEN [ok |-> TRUE,
               total_inward |-> total_inward,
               total_outward |-> total_outward,
               current_stock |-> current_stock,
               avg_rate |-> Frac(total_amount, total_inward),
               stock_value |-> Frac(current_stock * total_amount, total_inward),
               unit |-> inward_filtered[1].Unit]
         ELSE [ok |-> TRUE,
               total_inward |-> total_inward,
               total_outward |-> total_outward,
               current_stock |-> current_stock,
               avg_rate |-> FracZero,
               stock_value |-> FracZero,
               unit |-> "Units"]

\* get_low_stock_limit: None, or the limit of the first matching row.
NoLimit == [has |-> FALSE, value |-> 0]

\* get_low_stock_limit taking the limit of the last matching row.
get_low_stock_limit_LastRow(material_name, material_grade) ==
    LET limit_row == SelectSeq(limits,
            LAMBDA r : r.Material = material_name /\ r.Grade = material_grade)
    IN IF limits # <<>> /\ limit_row # <<>>
       THEN [has |-> TRUE, value |-> limit_row[Len(limit_row)].LowStockLimit]
       ELSE NoLimit

get_low_stock_limit(material_name, material_grade) ==
    LET limit_row == SelectSeq(limits,
            LAMBDA r : r.Material = material_name /\ r.Grade = material_grade)
    IN IF limits # <<>> /\ limit_row # <<>>
       THEN [has |-> TRUE, value |-> limit_row[1].LowStockLimit]
       ELSE NoLimit

\* StockStatus with the out-of-stock test written `< 0`.
StockStatus_StrictZero(current_stock, low_stock_limit) ==
    IF current_stock < 0 THEN "Out of Stock"
    ELSE IF low_stock_limit.has /\ low_stock_limit.value # 0
            /\ current_stock <= low_stock_limit.value
         THEN "Low Stock"
         ELSE "In Stock"

\* StockStatus with the limit test written `<`.
StockStatus_StrictLimit(current_stock, low_stock_limit) ==
    IF current_stock <= 0 THEN "Out of Stock"
    ELSE IF low_stock_limit.has /\ low_stock_limit.value # 0
            /\ current_stock < low_stock_limit.value
         THEN "Low Stock"
         ELSE "In Stock"

\* "Determine status" of calculate_all_material_stock; `low_stock_limit and ...`
\* is false for None and for 0.0.
StockStatus(current_stock, low_stock_limit) ==
    IF current_stock <= 0 THEN "Out of Stock"
    ELSE IF low_stock_limit.has /\ low_stock_limit.value # 0
            /\ current_stock <= low_stock_limit.value
         THEN "Low Stock"
         ELSE "In Stock"

\* utils.calculate_stock_status(current_stock, min_threshold)
calculate_stock_status(current_stock, min_threshold) ==
    IF current_stock <= 0 THEN "Out of Stock"
    ELSE IF current_stock <= min_threshold THEN "Low Stock"
    ELSE "In Stock"

\* inward_df[['Material', 'Grade']].drop_duplicates(): first occurrences, in order.
RECURSIVE DropDuplicates(_, _)
DropDuplicates(rows, seen) ==
    IF rows = <<>> THEN <<>>
    ELSE LET k == <<Head(rows).Material, Head(rows).Grade>>
         IN IF k \in seen THEN DropDuplicates(Tail(rows), seen)
            ELSE <<k>> \o DropDuplicates(Tail(rows), seen \cup {k})

\* One element of stock_data.
StockEntry(material, grade) ==
    LET stock_info == calculate_material_stock(material, grade)
        low_stock_limit == get_low_stock_limit(material, grade)
    IN [Material |-> material,
        Grade |-> grade,
        CurrentStock |-> stock_info.current_stock,
        Unit |-> stock_info.unit,
        AvgRate |-> stock_info.avg_rate,
        StockValue |-> stock_info.stock_value,
        LowStockLimit |-> IF low_stock_limit.has /\ low_stock_limit.value # 0
                          THEN low_stock_limit ELSE NoLimit,
        Status |-> StockStatus(stock_info.current_stock, low_stock_limit)]

\* stock_data.sort(key = stock value, reverse = True): stable, descending.
RECURSIVE InsertByValue(_, _)
InsertByValue(e, sorted) ==
    IF sorted = <<>> THEN <<e>>
    ELSE IF FracLess(Head(sorted).StockValue, e.StockValue)
         THEN <<e>> \o sorted
         ELSE <<Head(sorted)>> \o InsertByValue(e, Tail(sorted))

RECURSIVE SortByValue(_)
SortByValue(entries) ==
    IF entries = <<>> THEN <<>>
    ELSE InsertByValue(entries[Len(entries)],
                       SortByValue(SubSeq(entries, 1, Len(entries) - 1)))

RECURSIVE StockData(_)
StockData(combinations) ==
    IF combinations = <<>> THEN <<>>
    ELSE LET material == Head(combinations)[1]
             grade == Head(combinations)[2]
         IN (IF calculate_material_stock(material, grade).ok
             THEN <<StockEntry(material, grade)>> ELSE <<>>)
            \o StockData(Tail(combinations))

calculate_all_material_stock ==
    IF Len(inward) = 0 THEN <<>>
    ELSE SortByValue(StockData(DropDuplicates(inward, {})))

\* ------------------------------------------------ worksheet and header row
\* The two header lists the application passes for 'Outward Register'.
OutwardHeaders12 ==
    <<"Date", "Material Name", "Material", "Grade", "Quantity", "Unit",
      "Issued To", "Purpose", "Issued By", "Wing", "Flat Number", "Remarks">>
OutwardHeaders10 ==
    <<"Date", "Material Name", "Material", "Grade", "Quantity", "Unit",
      "Issued To", "Purpose", "Issued By", "Remarks">>

\* outward_data: the field each of its values belongs to, in list order
\* (full_material is the 'Material Name' value).
OutwardDataFields ==
    <<"Date", "Material Name", "Material", "Grade", "Quantity", "Unit",
      "Issued To", "Purpose", "Issued By", "Wing", "Flat Number", "Remarks">>

\* A worksheet row.  The cells of a header row are the header strings; the
\* cells of a data row name, position by position, the field whose value
\* was written there.  id tells data rows apart: the n-th row the form
\* appended has id n (0 for a header row).
HeaderRow(headers) == [kind |-> "header", id |-> 0, cells |-> headers]
DataRow(id, fields) == [kind |-> "data", id |-> id, cells |-> fields]

\* How the backend calls of one header reconciliation end.
BackendOutcomes ==
    {"ok", "row_values_raises", "delete_rows_raises", "insert_row_raises"}

\* existing_headers != headers, on worksheet.row_values(1)
HeadersDiffer(worksheet, headers) ==
    worksheet = <<>> \/ worksheet[1] # HeaderRow(headers)

\* worksheet.delete_rows(1): the rows below move up.
delete_rows_1(worksheet) == IF worksheet = <<>> THEN <<>> ELSE Tail(worksheet)

\* worksheet.insert_row(headers, 1): the rows from row 1 on move down.
insert_row_1(worksheet, headers) == <<HeaderRow(headers)>> \o worksheet

\* get_or_create_worksheet on an existing sheet: the rows of the worksheet
\* after the call.  An exception of row_values, delete_rows or insert_row
\* is caught by the inner `except Exception` and only printed.
get_or_create_worksheet(worksheet, headers, outcome) ==
    IF outcome = "row_values_raises" THEN worksheet
    ELSE IF ~HeadersDiffer(worksheet, headers) THEN worksheet
    ELSE IF outcome = "delete_rows_raises" THEN worksheet
    ELSE IF outcome = "insert_row_raises" THEN delete_rows_1(worksheet)
    ELSE insert_row_1(delete_rows_1(worksheet), headers)

\* The same call as two sessions run it side by side on one worksheet, one
\* backend request at a time: row_values(1), then delete_rows(1), then
\* insert_row(headers, 1).  Nothing orders the requests of one session
\* against those of the other.
Sessions == {1, 2}
NoHeaderCall == [pc |-> "idle", headers |-> <<>>]

\* existing_headers = worksheet.row_values(1) and the comparison.
RowValuesStep(s, headers) ==
    /\ ops < MaxOps
    /\ headerCall[s].pc = "idle"
    /\ headerCall' = [headerCall EXCEPT ![s] =
          IF HeadersDiffer(outwardSheet, headers)
          THEN [pc |-> "delete_rows", headers |-> headers]
          ELSE NoHeaderCall]
    /\ ops' = ops + 1
    /\ UNCHANGED <<ledgerVars, reconVars, otherVars, cacheVars, clockVars,
                   sheetVars, expiryView, indentSession, masterVars, closingVars>>

\* worksheet.delete_rows(1)
DeleteRowsStep(s) ==
    /\ headerCall[s].pc = "delete_rows"
    /\ outwardSheet' = delete_rows_1(outwardSheet)
    /\ headerCall' = [headerCall EXCEPT ![s].pc = "insert_row"]
    /\ UNCHANGED <<ledgerVars, reconVars, otherVars, cacheVars, ops, clockVars,
                   expiryView, indentSession, masterVars, closingVars>>

\* worksheet.insert_row(headers, 1)
InsertRowStep(s) ==
    /\ headerCall[s].pc = "insert_row"
    /\ outwardSheet' = insert_row_1(outwardSheet, headerCall[s].headers)
    /\ headerCall' = [headerCall EXCEPT ![s] = NoHeaderCall]
    /\ UNCHANGED <<ledgerVars, reconVars, otherVars, cacheVars, ops, clockVars,
                   expiryView, indentSession, masterVars, closingVars>>

\* ------------------------------------------------------- master sheets
\* default_materials and default_grades of
\* initialize_default_materials_and_grades, as <<name, Material Category>>
\* in the order they are appended.
default_materials ==
    <<
      <<"Steel", "Metal">>, <<"Cement", "Binder">>, <<"Sand", "Aggregate">>,
      <<"Gravel", "Aggregate">>, <<"Bricks", "Masonry">>, <<"Tiles", "Finishing">>,
      <<"Paint", "Finishing">>, <<"Wire", "Electrical">>, <<"Pipe", "Plumbing">>,
      <<"Wood", "Timber">>, <<"Glass", "Glazing">>, <<"Aluminum", "Metal">>,
      <<"Concrete", "Premix">>, <<"Marble", "Stone">>
    >>
default_grades ==
    <<
      <<"8mm", "Steel">>, <<"10mm", "Steel">>, <<"12mm", "Steel">>,
      <<"16mm", "Steel">>, <<"20mm", "Steel">>, <<"OPC 43", "Cement">>,
      <<"OPC 53", "Cement">>, <<"PPC", "Cement">>, <<"M Sand", "Sand">>,
      <<"River Sand", "Sand">>, <<"20mm", "Aggregate">>, <<"12mm", "Aggregate">>,
      <<"6mm", "Aggregate">>, <<"Red Brick", "Bricks">>, <<"Fly Ash Brick", "Bricks">>,
      <<"2x2 feet", "Tiles">>, <<"1x1 feet", "Tiles">>
    >>

\* str.strip() and str.lower() on the names that occur: the defaults and
\* the names entered.
strip(name) ==
    CASE name = " granite " -> "granite"
      [] name = "   " -> ""
      [] name = "m25 " -> "m25"
      [] OTHER -> name

lower(name) ==
    CASE name = "Steel" -> "steel"
      [] name = "Cement" -> "cement"
      [] name = "Sand" -> "sand"
      [] name = "Gravel" -> "gravel"
      [] name = "Bricks" -> "bricks"
      [] name = "Tiles" -> "tiles"
      [] name = "Paint" -> "paint"
      [] name = "Wire" -> "wire"
      [] name = "Pipe" -> "pipe"
      [] name = "Wood" -> "wood"
      [] name = "Glass" -> "glass"
      [] name = "Aluminum" -> "aluminum"
      [] name = "Concrete" -> "concrete"
      [] name = "Marble" -> "marble"
      [] name = "OPC 43" -> "opc 43"
      [] name = "OPC 53" -> "opc 53"
      [] name = "PPC" -> "ppc"
      [] name = "M Sand" -> "m sand"
      [] name = "River Sand" -> "river sand"
      [] name = "Red Brick" -> "red brick"
      [] name = "Fly Ash Brick" -> "fly ash brick"
      [] name = "Granite" -> "granite"
      [] name = "M25" -> "m25"
      [] OTHER -> name

MaterialNameInputs == {"Granite", " granite ", "steel", "   "}
GradeNameInputs == {"M25", "m25 ", "20mm"}

MaterialRow(name, category, added_by) ==
    [MaterialName |-> name, MaterialCategory |-> category, AddedBy |-> added_by]
GradeRow(name, category, added_by) ==
    [Grade |-> name, MaterialCategory |-> category, AddedBy |-> added_by]

\* What a sheet holds after clear(), append_row(headers) and one append_row
\* per default.
DefaultMaterialRows ==
    [i \in 1..Len(default_materials) |->
        MaterialRow(default_materials[i][1], default_materials[i][2], "System")]
DefaultGradeRows ==
    [i \in 1..Len(default_grades) |->
        GradeRow(default_grades[i][1], default_grades[i][2], "System")]

\* `if materials_df.empty or len(materials_df) < 5`
MinMasterRows == 5

\* initialize_default_materials_and_grades, called by init_sheets_manager
\* when a session starts.  dataframe_from_worksheet returns an empty
\* DataFrame when get_all_records() raises (read_ok FALSE).
initialize_default_materials_and_grades(read_ok) ==
    /\ ops < MaxOps
    /\ materialMaster' =
          IF ~read_ok \/ Len(materialMaster) < MinMasterRows
          THEN DefaultMaterialRows ELSE materialMaster
    /\ gradeMaster' =
          IF ~read_ok \/ Len(gradeMaster) < MinMasterRows
          THEN DefaultGradeRows ELSE gradeMaster
    /\ masterInit' = TRUE
    /\ ops' = ops + 1
    /\ UNCHANGED <<ledgerVars, reconVars, otherVars, cacheVars, clockVars,
                   sheetVars, expiryView, indentSession, headerCall, lastAdd,
                   closingVars>>

NoAdd == [ok |-> FALSE, message |-> ""]

\* add_new_material
add_new_material(material_name, category, read_ok) ==
    /\ ops < MaxOps
    /\ IF strip(material_name) = ""
       THEN /\ lastAdd' = [ok |-> FALSE, message |-> "Invalid input"]
            /\ UNCHANGED materialMaster
       ELSE LET existing_materials ==
                    IF read_ok
                    THEN {lower(strip(materialMaster[i].MaterialName)) :
                              i \in 1..Len(materialMaster)}
                    ELSE {}
            IN IF lower(strip(material_name)) \in existing_materials
               THEN /\ lastAdd' = [ok |-> FALSE, message |-> "already exists"]
                    /\ UNCHANGED materialMaster
               ELSE /\ materialMaster' = Append(materialMaster,
                          MaterialRow(strip(material_name), category, "User"))
                    /\ lastAdd' = [ok |-> TRUE, message |-> "added successfully"]
    /\ ops' = ops + 1
    /\ UNCHANGED <<ledgerVars, reconVars, otherVars, cacheVars, clockVars,
                   sheetVars, expiryView, indentSession, headerCall, gradeMaster,
                   masterInit, closingVars>>

\* add_new_grade
add_new_grade(grade_name, category, read_ok) ==
    /\ ops < MaxOps
    /\ IF strip(grade_name) = ""
       THEN /\ lastAdd' = [ok |-> FALSE, message |-> "Invalid input"]
            /\ UNCHANGED gradeMaster
       ELSE LET existing_grades ==
                    IF read_ok
                    THEN {lower(strip(gradeMaster[i].Grade)) :
                              i \in 1..Len(gradeMaster)}
                    ELSE {}
            IN IF lower(strip(grade_name)) \in existing_grades
               THEN /\ lastAdd' = [ok |-> FALSE, message |-> "already exists"]
                    /\ UNCHANGED gradeMaster
               ELSE /\ gradeMaster' = Append(gradeMaster,
                          GradeRow(strip(grade_name), category, "User"))
                    /\ lastAdd' = [ok |-> TRUE, message |-> "added successfully"]
    /\ ops' = ops + 1
    /\ UNCHANGED <<ledgerVars, reconVars, otherVars, cacheVars, clockVars,
                   sheetVars, expiryView, indentSession, headerCall,
                   materialMaster, masterInit, closingVars>>

\* ------------------------------------------------------- daily closing
ClosingDates == {0, 1}
ClosingRow(closing_date, material) == [Date |-> closing_date, Material |-> material]

\* The DataFrames generate_daily_closing builds: one row per material, each
\* carrying the date it was generated for.
ClosingFrames ==
    UNION {{<<ClosingRow(d, "Steel")>>,
            <<ClosingRow(d, "Steel"), ClosingRow(d, "Cement")>>} : d \in ClosingDates}

\* The sheet rows (counted from 2, under the header) whose Date is date_str.
rows_to_delete(existing_data, date_str) ==
    LET hits == {i \in 1..Len(existing_data) : existing_data[i].Date = date_str}
        RECURSIVE Ascending(_, _)
        Ascending(i, acc) ==
            IF i > Len(existing_data) THEN acc
            ELSE Ascending(i + 1, IF i \in hits THEN Append(acc, i + 1) ELSE acc)
    IN Ascending(1, <<>>)

\* worksheet.delete_rows(row_idx) on the data rows of a sheet.
delete_rows(data, row_idx) ==
    IF row_idx - 1 \in 1..Len(data)
    THEN SubSeq(data, 1, row_idx - 2) \o SubSeq(data, row_idx, Len(data))
    ELSE data

\* The deletion loop, one delete_rows per listed index, in list order.
RECURSIVE DeleteEach(_, _)
DeleteEach(data, indices) ==
    IF indices = <<>> THEN data
    ELSE DeleteEach(delete_rows(data, Head(indices)), Tail(indices))

reversed(seq) == [i \in 1..Len(seq) |-> seq[Len(seq) + 1 - i]]

\* save_daily_closing deleting in ascending index order.
save_daily_closing_Ascending(data, daily_closing_df, closing_date) ==
    DeleteEach(data, rows_to_delete(data, closing_date)) \o daily_closing_df

\* save_daily_closing without a failure: the data rows of 'Daily Closing'
\* after the call.
save_daily_closing(data, daily_closing_df, closing_date) ==
    DeleteEach(data, reversed(rows_to_delete(data, closing_date))) \o daily_closing_df

NoSave == [returned |-> FALSE, date |-> 0, deleted |-> 0]
SaveOutcomes == {"ok", "get_all_records_raises", "append_row_raises"}

\* A call of save_daily_closing.  An exception anywhere ends in the except
\* branch, which returns False and undoes nothing: get_all_records raising
\* leaves the sheet as it was, the first append_row raising leaves it
\* without the rows of the date.
SaveDailyClosing(daily_closing_df, closing_date, outcome) ==
    /\ ops < MaxOps
    /\ dailyClosing' =
          CASE outcome = "ok" ->
                  save_daily_closing(dailyClosing, daily_closing_df, closing_date)
            [] outcome = "get_all_records_raises" -> dailyClosing
            [] outcome = "append_row_raises" ->
                  save_daily_closing(dailyClosing, <<>>, closing_date)
    /\ lastSave' = [returned |-> outcome = "ok", date |-> closing_date,
                    deleted |-> IF outcome = "get_all_records_raises" THEN 0
                                ELSE Len(rows_to_delete(dailyClosing, closing_date))]
    /\ ops' = ops + 1
    /\ UNCHANGED <<ledgerVars, reconVars, otherVars, cacheVars, clockVars,
                   sheetVars, expiryView, indentSession, headerCall, masterVars>>

\* ------------------------------------------------------- initial state
NoRecon == [outcome |-> "none", before |-> 0, failAt |-> 0, data |-> <<>>]
NoExpiryView == [seen |-> FALSE, day |-> 0, rows |-> <<>>, labels |-> <<>>]
NoIndentSession ==
    [active |-> FALSE, selected |-> "", sheet_row |-> 0, new_status |-> "",
     shifted |-> FALSE, done |-> FALSE, hit |-> ""]

Init ==
    /\ inward = <<>>
    /\ outward = <<>>
    /\ returns = <<>>
    /\ damage = <<>>
    /\ limits = <<>>
    /\ recon = <<>>
    /\ lastRecon = NoRecon
    /\ vendor = <<>>
    /\ boq = <<>>
    /\ indent = <<>>
    /\ transfer = <<>>
    /\ scrap = <<>>
    /\ dfCache = [f \in DfReaders |-> NoDfEntry]
    /\ listCache = [f \in ListReaders |-> NoListEntry]
    /\ writes = 0
    /\ ops = 0
    /\ nowDay = 0
    /\ nowHour = 0
    /\ outwardSheet = <<HeaderRow(OutwardHeaders10)>>
    /\ expiryView = NoExpiryView
    /\ indentSession = NoIndentSession
    /\ headerCall = [s \in Sessions |-> NoHeaderCall]
    /\ materialMaster = <<>>
    /\ gradeMaster = <<>>
    /\ masterInit = FALSE
    /\ lastAdd = NoAdd
    /\ dailyClosing = <<>>
    /\ lastSave = NoSave

\* ------------------------------------------------------ submit handlers
\* What create_material_grade_selector offers: the predefined lists plus the
\* values found in the Inward Register (dropna() keeps an empty string), as
\* the list readers return them after the clear_cache() of the last write.
MaterialOptions == MATERIALS_LIST \cup {inward[i].Material : i \in 1..Len(inward)}
GradeOptions == GRADES_LIST \cup {inward[i].Grade : i \in 1..Len(inward)}

\* A row typed into the 'Inward Register' sheet directly (the spreadsheet is
\* shared and editable); this is how a row with a blank grade gets there.
InwardRowTyped(material, grade, quantity, unit, rate, expiry_date) ==
    /\ ops < MaxOps
    /\ inward' = Append(inward,
          [Material |-> material, Grade |-> grade,
           Quantity |-> quantity, Numeric |-> TRUE, Unit |-> unit,
           Rate |-> rate, ExpiryDate |-> expiry_date])
    /\ ops' = ops + 1
    /\ UNCHANGED <<outward, returns, damage, limits, reconVars, otherVars,
                   cacheVars, clockVars, sheetVars, sessionVars>>

\* A row typed into the 'Inward Register' sheet whose Quantity cell holds
\* text or is blank: get_all_records() leaves such a value a str.  Numeric
\* is FALSE for it and its Quantity field is never read as a number.
InwardTextRowTyped(material, grade, unit, rate) ==
    /\ ops < MaxOps
    /\ inward' = Append(inward,
          [Material |-> material, Grade |-> grade,
           Quantity |-> 0, Numeric |-> FALSE, Unit |-> unit,
           Rate |-> rate, ExpiryDate |-> NoDate])
    /\ ops' = ops + 1
    /\ UNCHANGED <<outward, returns, damage, limits, reconVars, otherVars,
                   cacheVars, clockVars, sheetVars, sessionVars>>

\* "Add Inward Entry": validation, append_row, clear_cache.
InwardSubmit(material_name, material_grade, quantity, unit, rate, expiry_date) ==
    /\ ops < MaxOps
    /\ material_name \in MaterialOptions /\ material_grade \in GradeOptions
    /\ quantity > 0 /\ rate > 0
    /\ inward' = Append(inward,
          [Material |-> material_name, Grade |-> material_grade,
           Quantity |-> quantity, Numeric |-> TRUE, Unit |-> unit,
           Rate |-> rate, ExpiryDate |-> expiry_date])
    /\ AfterWrite
    /\ UNCHANGED <<outward, returns, damage, limits, reconVars, otherVars, clockVars, sheetVars, sessionVars>>

\* "Issue Material": validation, get_or_create_worksheet with the 12-column
\* list, append_row(outward_data), clear_cache.  outcome is how the header
\* reconciliation inside get_or_create_worksheet ends.
OutwardSubmitWith(material_name, material_grade, quantity, unit, outcome) ==
    /\ ops < MaxOps
    /\ material_name \in MaterialOptions /\ material_grade \in GradeOptions
    /\ quantity > 0
    /\ outward' = Append(outward,
          [Material |-> material_name, Grade |-> material_grade,
           Quantity |-> quantity, Unit |-> unit])
    /\ outwardSheet' =
          Append(get_or_create_worksheet(outwardSheet, OutwardHeaders12, outcome),
                 DataRow(Len(outward) + 1, OutwardDataFields))
    /\ AfterWrite
    /\ UNCHANGED <<inward, returns, damage, limits, reconVars, otherVars, clockVars, sessionVars>>

\* "Issue Material" when every backend call succeeds.
OutwardSubmit(material_name, material_grade, quantity, unit) ==
    OutwardSubmitWith(material_name, material_grade, quantity, unit, "ok")

\* The Reconciliation page loads the registers: get_or_create_worksheet for
\* 'Outward Register' with the 10-column list.
ViewReconciliation(outcome) ==
    /\ ops < MaxOps
    /\ outwardSheet' =
          get_or_create_worksheet(outwardSheet, OutwardHeaders10, outcome)
    /\ ops' = ops + 1
    /\ UNCHANGED <<ledgerVars, reconVars, otherVars, cacheVars, clockVars, sessionVars>>

\* calculate_material_stock loads the registers: get_or_create_worksheet for
\* 'Outward Register' with the 12-column list.
ViewStockSummary(outcome) ==
    /\ ops < MaxOps
    /\ outwardSheet' =
          get_or_create_worksheet(outwardSheet, OutwardHeaders12, outcome)
    /\ ops' = ops + 1
    /\ UNCHANGED <<ledgerVars, reconVars, otherVars, cacheVars, clockVars, sessionVars>>

\* "Process Return": validation, append_row, clear_cache.
ReturnsSubmit(material_name, material_grade, quantity) ==
    /\ ops < MaxOps
    /\ material_name \in MaterialOptions /\ material_grade \in GradeOptions
    /\ quantity > 0
    /\ returns' = Append(returns,
          [Material |-> material_name, Grade |-> material_grade,
           Quantity |-> quantity])
    /\ AfterWrite
    /\ UNCHANGED <<inward, outward, damage, limits, reconVars, otherVars, clockVars, sheetVars, sessionVars>>

\* "Record Damage/Loss Entry": validation, append_row, clear_cache.
DamageSubmit(material_name, material_grade, quantity) ==
    /\ ops < MaxOps
    /\ material_name \in MaterialOptions /\ material_grade \in GradeOptions
    /\ quantity > 0
    /\ damage' = Append(damage,
          [Material |-> material_name, Grade |-> material_grade,
           Quantity |-> quantity])
    /\ AfterWrite
    /\ UNCHANGED <<inward, outward, returns, limits, reconVars, otherVars, clockVars, sheetVars, sessionVars>>

\* The 'Low Stock Limits' sheet is only read by the application ("Set Limit"
\* writes nothing); its rows are typed into the spreadsheet directly.
LowStockLimitRowAdded(material, grade, limit) ==
    /\ ops < MaxOps
    /\ limits' = Append(limits,
          [Material |-> material, Grade |-> grade, LowStockLimit |-> limit])
    /\ ops' = ops + 1
    /\ UNCHANGED <<inward, outward, returns, damage, reconVars, otherVars,
                   cacheVars, clockVars, sheetVars, sessionVars>>

\* ------------------------------------------------- validation failures
\* The else branch of "Add Inward Entry": the guard
\* `material_name and vendor != "Select Vendor" and quantity > 0 and rate > 0
\*  and invoice_number and received_by` is false, st.error is shown and
\* nothing is written.  filled stands for the three text/vendor conjuncts.
InwardRejected(material_name, quantity, rate, filled) ==
    /\ ops < MaxOps
    /\ ~(material_name # "" /\ quantity > 0 /\ rate > 0 /\ filled)
    /\ ops' = ops + 1
    /\ UNCHANGED <<ledgerVars, reconVars, otherVars, cacheVars, clockVars, sheetVars, sessionVars>>

\* The else branch of "Record Damage/Loss Entry"; filled stands for
\* `reason and reported_by and estimated_value > 0 and description`.
DamageRejected(material_name, quantity, filled) ==
    /\ ops < MaxOps
    /\ ~(material_name # "" /\ quantity > 0 /\ filled)
    /\ ops' = ops + 1
    /\ UNCHANGED <<ledgerVars, reconVars, otherVars, cacheVars, clockVars, sheetVars, sessionVars>>

\* The else branch of "Add Vendor": missing_fields is not empty; filled
\* stands for the Contact Person and Phone Number tests.
AddVendorRejected(vendor_name, material_name, material_grade, filled) ==
    /\ ops < MaxOps
    /\ ~(vendor_name # "" /\ material_name # "" /\ material_grade # "" /\ filled)
    /\ ops' = ops + 1
    /\ UNCHANGED <<ledgerVars, reconVars, otherVars, cacheVars, clockVars, sheetVars, sessionVars>>

\* ------------------------------------------------------ reconciliation
\* Python's string order on the values that occur as group keys.
MaterialRank(m) == IF m = "Cement" THEN 1 ELSE 2
GradeRank(g) == IF g = "" THEN 1 ELSE 2
UnitRank(u) == IF u = "Kg" THEN 1 ELSE 2
GroupKeyLess(a, b) ==
    \/ MaterialRank(a[1]) < MaterialRank(b[1])
    \/ /\ a[1] = b[1]
       /\ \/ GradeRank(a[2]) < GradeRank(b[2])
          \/ a[2] = b[2] /\ UnitRank(a[3]) < UnitRank(b[3])

\* The keys of a groupby / outer merge come out sorted.
RECURSIVE SortedGroupKeys(_)
SortedGroupKeys(S) ==
    IF S = {} THEN <<>>
    ELSE LET least == CHOOSE a \in S : \A b \in S \ {a} : GroupKeyLess(a, b)
         IN <<least>> \o SortedGroupKeys(S \ {least})

GroupKeysOf(df) == {<<df[i].Material, df[i].Grade, df[i].Unit>> : i \in 1..Len(df)}

\* df.groupby(['Material', 'Grade', 'Unit']).agg({'Quantity': 'sum'}) at one key.
GroupQuantity(df, k) ==
    SumQuantity(SelectSeq(df,
        LAMBDA r : r.Material = k[1] /\ r.Grade = k[2] /\ r.Unit = k[3]))

\* `merged`: the outer merge with fillna(0) when outward_df has rows,
\* inward_summary alone otherwise; 'Theoretical Stock' per row.
MergedRow(k, theoretical) ==
    [Material |-> k[1], Grade |-> k[2], Unit |-> k[3], Theoretical |-> theoretical]

Merged ==
    IF outward # <<>>
    THEN LET keys == SortedGroupKeys(GroupKeysOf(inward) \cup GroupKeysOf(outward))
         IN [i \in 1..Len(keys) |->
                MergedRow(keys[i],
                          GroupQuantity(inward, keys[i]) - GroupQuantity(outward, keys[i]))]
    ELSE LET keys == SortedGroupKeys(GroupKeysOf(inward))
         IN [i \in 1..Len(keys) |->
                MergedRow(keys[i], GroupQuantity(inward, keys[i]))]

\* variance = actual - theoretical
VarianceOf(actual, theoretical) == actual - theoretical

\* One element of reconciliation_data.
ReconItem(row, actual) ==
    [Material |-> row.Material, Grade |-> row.Grade, Unit |-> row.Unit,
     Theoretical |-> row.Theoretical,
     Actual |-> actual,
     Variance |-> VarianceOf(actual, row.Theoretical)]

\* The filter with its variance test left out.
ItemIsSaved_ActualOnly(item) == item.Actual > 0

\* "Only save items with data"
ItemIsSaved(item) == item.Actual > 0 \/ item.Variance # 0

\* recon_row
ReconRow(item, recon_date) ==
    [Date |-> recon_date, Material |-> item.Material, Grade |-> item.Grade,
     Unit |-> item.Unit, TheoreticalStock |-> item.Theoretical,
     ActualStock |-> item.Actual, Variance |-> item.Variance]

\* The loop with every row it wrote taken back when an append_row raises.
RowsWritten_RolledBack(rows, failAt) ==
    IF failAt = 0 THEN rows ELSE <<>>

\* What the `for item in reconciliation_data` loop has appended when it ends
\* (failAt = 0) or when its failAt-th append_row raises: nothing is undone.
RowsWritten(rows, failAt) ==
    IF failAt = 0 THEN rows ELSE SubSeq(rows, 1, failAt - 1)

\* "Submit Reconciliation".  actual[i] is the number typed for the i-th row
\* of the form.  failAt = 0: every append_row succeeds; failAt = j: the j-th
\* append_row raises, after j - 1 rows were written (there is no rollback).
SubmitReconciliation(recon_date, reconciled_by) ==
    /\ ops < MaxOps
    /\ inward # <<>>
    /\ reconciled_by # ""
    /\ LET merged == Merged
       IN \E actual \in [1..Len(merged) -> Actuals] :
          LET reconciliation_data ==
                  [i \in 1..Len(merged) |-> ReconItem(merged[i], actual[i])]
              saved == SelectSeq(reconciliation_data, ItemIsSaved)
              rows == [i \in 1..Len(saved) |-> ReconRow(saved[i], recon_date)]
          IN \E failAt \in 0..Len(rows) :
                /\ recon' = recon \o RowsWritten(rows, failAt)
                /\ lastRecon' = [outcome |-> IF failAt = 0 THEN "ok" ELSE "error",
                                 before |-> Len(recon),
                                 failAt |-> failAt,
                                 data |-> reconciliation_data]
    /\ ops' = ops + 1
    /\ UNCHANGED <<ledgerVars, otherVars, cacheVars, clockVars, sheetVars, sessionVars>>

\* -------------------------------------------------- other write handlers
\* "Add Vendor": validation, append_row, clear_cache.
AddVendor(vendor_name, material_name, material_grade) ==
    /\ ops < MaxOps
    /\ vendor_name # "" /\ material_name # "" /\ material_grade # ""
    /\ vendor' = Append(vendor,
          [VendorName |-> vendor_name, Material |-> material_name,
           Grade |-> material_grade])
    /\ AfterWrite
    /\ UNCHANGED <<ledgerVars, reconVars, boq, indent, transfer, scrap, clockVars, sheetVars, sessionVars>>

\* "Add BOQ Mapping": validation, append_row, then get_all_values() to count
\* the rows, then clear_cache.  verified = FALSE: get_all_values() raises, the
\* handler reports an error and clear_cache is not reached.
BOQSubmit(boq_item_code, material_name, quantity_per_unit, verified) ==
    /\ ops < MaxOps
    /\ boq_item_code # "" /\ material_name \in MaterialOptions
    /\ quantity_per_unit > 0
    /\ boq' = Append(boq,
          [BOQItemCode |-> boq_item_code, Material |-> material_name,
           QuantityPerUnit |-> quantity_per_unit])
    /\ IF verified
       THEN AfterWrite
       ELSE ops' = ops + 1 /\ UNCHANGED cacheVars
    /\ UNCHANGED <<ledgerVars, reconVars, vendor, indent, transfer, scrap, clockVars, sheetVars, sessionVars>>

\* "Submit Indent": validation, append_row with Status "Pending", clear_cache.
IndentSubmit(indent_number, material_name, required_quantity) ==
    /\ ops < MaxOps
    /\ indent_number # "" /\ material_name \in MaterialOptions
    /\ required_quantity > 0
    /\ indent' = Append(indent,
          [IndentNumber |-> indent_number, Material |-> material_name,
           RequiredQuantity |-> required_quantity, Status |-> "Pending"])
    /\ AfterWrite
    /\ UNCHANGED <<ledgerVars, reconVars, vendor, boq, transfer, scrap, clockVars, sheetVars, sessionVars>>

\* "Create Transfer" writing, besides its own row, an inward row for the
\* destination.
TransferSubmit_WithDestinationInward(transfer_number, material_name, material_grade, transfer_quantity) ==
    /\ ops < MaxOps
    /\ transfer_number # "" /\ material_name \in MaterialOptions
    /\ material_grade \in GradeOptions
    /\ transfer_quantity > 0
    /\ transfer' = Append(transfer,
          [TransferNumber |-> transfer_number, Material |-> material_name,
           Grade |-> material_grade, Quantity |-> transfer_quantity,
           Status |-> "In Transit"])
    /\ inward' = Append(inward,
          [Material |-> material_name, Grade |-> material_grade,
           Quantity |-> transfer_quantity, Numeric |-> TRUE, Unit |-> "Kg",
           Rate |-> 6, ExpiryDate |-> NoDate])
    /\ AfterWrite
    /\ UNCHANGED <<outward, returns, damage, limits, reconVars, vendor, boq,
                   indent, scrap, clockVars, sheetVars, sessionVars>>

\* "Create Transfer": validation, append_row with Status "In Transit", clear_cache.
TransferSubmit(transfer_number, material_name, material_grade, transfer_quantity) ==
    /\ ops < MaxOps
    /\ transfer_number # "" /\ material_name \in MaterialOptions
    /\ material_grade \in GradeOptions
    /\ transfer_quantity > 0
    /\ transfer' = Append(transfer,
          [TransferNumber |-> transfer_number, Material |-> material_name,
           Grade |-> material_grade, Quantity |-> transfer_quantity,
           Status |-> "In Transit"])
    /\ AfterWrite
    /\ UNCHANGED <<ledgerVars, reconVars, vendor, boq, indent, scrap, clockVars, sheetVars, sessionVars>>

\* "Record Scrap": validation, append_row with Status "Recorded", clear_cache.
ScrapSubmit(scrap_number, material_name, scrap_quantity) ==
    /\ ops < MaxOps
    /\ scrap_number # "" /\ material_name \in MaterialOptions
    /\ scrap_quantity > 0
    /\ scrap' = Append(scrap,
          [ScrapNumber |-> scrap_number, Material |-> material_name,
           Quantity |-> scrap_quantity, Status |-> "Recorded"])
    /\ AfterWrite
    /\ UNCHANGED <<ledgerVars, reconVars, vendor, boq, indent, transfer, clockVars, sheetVars, sessionVars>>

\* df[df[col] == selected].index[0]: position of the first matching row.
FirstIndex(numbers, selected) ==
    CHOOSE i \in 1..Len(numbers) :
        /\ numbers[i] = selected
        /\ \A j \in 1..(i - 1) : numbers[j] # selected

\* "Update Status" of an indent writing the status into every row that has
\* the selected Indent Number.
UpdateIndentStatus_AllMatching(selected_indent, new_status) ==
    /\ ops < MaxOps
    /\ \E i \in 1..Len(indent) : indent[i].IndentNumber = selected_indent
    /\ indent' = [i \in 1..Len(indent) |->
          IF indent[i].IndentNumber = selected_indent
          THEN [indent[i] EXCEPT !.Status = new_status]
          ELSE indent[i]]
    /\ AfterWrite
    /\ UNCHANGED <<ledgerVars, reconVars, vendor, boq, transfer, scrap, clockVars, sheetVars, sessionVars>>

\* "Update Status" of an indent: update_cell on the Status column of the
\* first row with the selected Indent Number, then clear_cache.
UpdateIndentStatus(selected_indent, new_status) ==
    /\ ops < MaxOps
    /\ \E i \in 1..Len(indent) : indent[i].IndentNumber = selected_indent
    /\ LET indent_row_idx ==
               FirstIndex([i \in 1..Len(indent) |-> indent[i].IndentNumber],
                          selected_indent)
       IN indent' = [indent EXCEPT ![indent_row_idx].Status = new_status]
    /\ AfterWrite
    /\ UNCHANGED <<ledgerVars, reconVars, vendor, boq, transfer, scrap, clockVars, sheetVars, sessionVars>>

\* The same "Update Status" step by step, as one session runs it next to
\* other users of the shared spreadsheet.  First the page reads the sheet
\* and computes sheet_row = indent_row_idx + 2 from the DataFrame it got.
ReadIndentsForUpdate(selected_indent, new_status) ==
    /\ ops < MaxOps
    /\ ~indentSession.active
    /\ \E i \in 1..Len(indent) : indent[i].IndentNumber = selected_indent
    /\ LET indent_row_idx ==
               FirstIndex([i \in 1..Len(indent) |-> indent[i].IndentNumber],
                          selected_indent) - 1
       IN indentSession' =
              [active |-> TRUE, selected |-> selected_indent,
               sheet_row |-> indent_row_idx + 2, new_status |-> new_status,
               shifted |-> FALSE, done |-> FALSE, hit |-> ""]
    /\ UNCHANGED <<ledgerVars, reconVars, otherVars, cacheVars, ops, clockVars,
                   sheetVars, expiryView, headerCall, masterVars, closingVars>>

\* Another user deletes data row i of 'Indent Register' (delete_rows, as
\* delete_vendor does on 'Vendor Master', or in the spreadsheet itself).
\* shifted records that this moved the row a waiting session has located.
IndentRowDeleted(i) ==
    /\ ops < MaxOps
    /\ i \in 1..Len(indent)
    /\ indent' = SubSeq(indent, 1, i - 1) \o SubSeq(indent, i + 1, Len(indent))
    /\ indentSession' =
          IF indentSession.active /\ i + 1 <= indentSession.sheet_row
          THEN [indentSession EXCEPT !.shifted = TRUE]
          ELSE indentSession
    /\ ops' = ops + 1
    /\ UNCHANGED <<ledgerVars, reconVars, vendor, boq, transfer, scrap,
                   cacheVars, clockVars, sheetVars, expiryView, headerCall, masterVars, closingVars>>

\* Another user inserts a row for indent_number before data row i.
IndentRowInserted(i, indent_number) ==
    /\ ops < MaxOps
    /\ i \in 1..Len(indent)
    /\ indent' = SubSeq(indent, 1, i - 1)
                  \o <<[IndentNumber |-> indent_number, Material |-> "Steel",
                        RequiredQuantity |-> 4, Status |-> "Pending"]>>
                  \o SubSeq(indent, i, Len(indent))
    /\ indentSession' =
          IF indentSession.active /\ i + 1 <= indentSession.sheet_row
          THEN [indentSession EXCEPT !.shifted = TRUE]
          ELSE indentSession
    /\ ops' = ops + 1
    /\ UNCHANGED <<ledgerVars, reconVars, vendor, boq, transfer, scrap,
                   cacheVars, clockVars, sheetVars, expiryView, headerCall, masterVars, closingVars>>

\* What update_cell leaves in a row that held no data.
BlankIndentRow ==
    [IndentNumber |-> "", Material |-> "", RequiredQuantity |-> 0, Status |-> ""]

\* update_cell writing to the row that now holds the selected number.
UpdateCellIndent_ByNumber ==
    /\ ops < MaxOps
    /\ indentSession.active
    /\ LET hits == {i \in 1..Len(indent) :
                       indent[i].IndentNumber = indentSession.selected}
       IN /\ indent' = [i \in 1..Len(indent) |->
                 IF i \in hits /\ \A j \in hits : i <= j
                 THEN [indent[i] EXCEPT !.Status = indentSession.new_status]
                 ELSE indent[i]]
          /\ indentSession' =
                 [indentSession EXCEPT !.active = FALSE, !.done = TRUE,
                      !.hit = IF hits = {} THEN "" ELSE indentSession.selected]
    /\ AfterWrite
    /\ UNCHANGED <<ledgerVars, reconVars, vendor, boq, transfer, scrap,
                   clockVars, sheetVars, expiryView, headerCall, masterVars, closingVars>>

\* Then indent_worksheet.update_cell(sheet_row, status_col, new_status) and
\* clear_cache(): the cell written is the one at the position computed from
\* the read, whatever row is there now.
UpdateCellIndent ==
    /\ ops < MaxOps
    /\ indentSession.active
    /\ LET row == indentSession.sheet_row - 1
       IN /\ indent' =
                 [i \in 1..(IF row > Len(indent) THEN row ELSE Len(indent)) |->
                     IF i = row
                     THEN [(IF i <= Len(indent) THEN indent[i] ELSE BlankIndentRow)
                              EXCEPT !.Status = indentSession.new_status]
                     ELSE IF i <= Len(indent) THEN indent[i] ELSE BlankIndentRow]
          /\ indentSession' =
                 [indentSession EXCEPT !.active = FALSE, !.done = TRUE,
                      !.hit = IF row <= Len(indent)
                              THEN indent[row].IndentNumber ELSE ""]
    /\ AfterWrite
    /\ UNCHANGED <<ledgerVars, reconVars, vendor, boq, transfer, scrap,
                   clockVars, sheetVars, expiryView, headerCall, masterVars, closingVars>>

\* "Update Transfer Status"
UpdateTransferStatus(selected_transfer, new_status) ==
    /\ ops < MaxOps
    /\ \E i \in 1..Len(transfer) : transfer[i].TransferNumber = selected_transfer
    /\ LET transfer_row_idx ==
               FirstIndex([i \in 1..Len(transfer) |-> transfer[i].TransferNumber],
                          selected_transfer)
       IN transfer' = [transfer EXCEPT ![transfer_row_idx].Status = new_status]
    /\ AfterWrite
    /\ UNCHANGED <<ledgerVars, reconVars, vendor, boq, indent, scrap, clockVars, sheetVars, sessionVars>>

\* "Update Scrap Status"
UpdateScrapStatus(selected_scrap, new_status) ==
    /\ ops < MaxOps
    /\ \E i \in 1..Len(scrap) : scrap[i].ScrapNumber = selected_scrap
    /\ LET scrap_row_idx ==
               FirstIndex([i \in 1..Len(scrap) |-> scrap[i].ScrapNumber],
                          selected_scrap)
       IN scrap' = [scrap EXCEPT ![scrap_row_idx].Status = new_status]
    /\ AfterWrite
    /\ UNCHANGED <<ledgerVars, reconVars, vendor, boq, indent, transfer, clockVars, sheetVars, sessionVars>>

\* ------------------------------------------------------- cached reads
\* @st.cache_data(ttl=...) of each reader, in seconds.
ttl(f) ==
    CASE f = "inward" -> 600
      [] f = "vendor" -> 600
      [] f = "outward" -> 60
      [] f = "vendors" -> 600
      [] f = "materials" -> 60
      [] f = "grades" -> 60

\* The sheet a DataFrame reader loads.
Backend(f) ==
    CASE f = "inward" -> inward
      [] f = "vendor" -> vendor
      [] f = "outward" -> outward

\* The cached DataFrame reader a list reader calls.
SourceOf(f) == IF f = "vendors" THEN "vendor" ELSE "inward"

\* The body of a list reader applied to the DataFrame it got.  A list is
\* kept as its set of items and whether it went through sorted(): the
\* fallbacks MATERIALS_LIST and GRADES_LIST are returned in declaration order.
ListValue(f, df) ==
    CASE f = "vendors" ->
            [sorted |-> TRUE, items |-> {df[i].VendorName : i \in 1..Len(df)}]
      [] f = "materials" ->
            IF df # <<>>
            THEN [sorted |-> TRUE,
                  items |-> MATERIALS_LIST \cup {df[i].Material : i \in 1..Len(df)}]
            ELSE [sorted |-> FALSE, items |-> MATERIALS_LIST]
      [] f = "grades" ->
            IF df # <<>>
            THEN [sorted |-> TRUE,
                  items |-> GRADES_LIST \cup {df[i].Grade : i \in 1..Len(df)}]
            ELSE [sorted |-> FALSE, items |-> GRADES_LIST]

\* A cache miss of a DataFrame reader runs its body: the sheet's rows, or
\* the empty DataFrame when the backend call raises.
FetchDf(f, fetched_ok) ==
    [valid |-> TRUE, age |-> 0, stamp |-> writes, ok |-> fetched_ok,
     data |-> IF fetched_ok THEN Backend(f) ELSE <<>>]

\* A cached DataFrame reader that runs its body again when the entry it
\* finds came from a failed read.
DfEntryFor_RetryAfterFailure(f, fetched_ok) ==
    IF dfCache[f].valid /\ dfCache[f].ok THEN dfCache[f] ELSE FetchDf(f, fetched_ok)

\* What a call of a cached DataFrame reader finds or stores.
DfEntryFor(f, fetched_ok) ==
    IF dfCache[f].valid THEN dfCache[f] ELSE FetchDf(f, fetched_ok)

\* A call of get_cached_inward_data / _vendor_data / _outward_data.
CachedDataRead(f, fetched_ok) ==
    /\ dfCache[f].valid => fetched_ok
    /\ dfCache' = [dfCache EXCEPT ![f] = DfEntryFor(f, fetched_ok)]
    /\ UNCHANGED <<ledgerVars, reconVars, otherVars, listCache, writes, ops,
                   clockVars, sheetVars, sessionVars>>

\* A call of get_cached_vendors_list / _materials_list / _grades_list: on a
\* miss the body calls the cached DataFrame reader it is built on.
CachedListRead(f, fetched_ok) ==
    /\ (listCache[f].valid \/ dfCache[SourceOf(f)].valid) => fetched_ok
    /\ IF listCache[f].valid
       THEN UNCHANGED <<dfCache, listCache>>
       ELSE LET src == DfEntryFor(SourceOf(f), fetched_ok)
            IN /\ dfCache' = [dfCache EXCEPT ![SourceOf(f)] = src]
               /\ listCache' = [listCache EXCEPT ![f] =
                      [valid |-> TRUE, age |-> 0, fetched |-> src.age,
                       stamp |-> src.stamp,
                       ok |-> src.ok, data |-> ListValue(f, src.data)]]
    /\ UNCHANGED <<ledgerVars, reconVars, otherVars, writes, ops, clockVars, sheetVars, sessionVars>>

get_cached_inward_data(fetched_ok) == CachedDataRead("inward", fetched_ok)
get_cached_vendor_data(fetched_ok) == CachedDataRead("vendor", fetched_ok)
get_cached_outward_data(fetched_ok) == CachedDataRead("outward", fetched_ok)
get_cached_vendors_list(fetched_ok) == CachedListRead("vendors", fetched_ok)
get_cached_materials_list(fetched_ok) == CachedListRead("materials", fetched_ok)
get_cached_grades_list(fetched_ok) == CachedListRead("grades", fetched_ok)

\* TickSeconds pass: every live entry ages, and an entry whose age reaches
\* its ttl is gone.
CacheTick ==
    /\ \/ \E f \in DfReaders : dfCache[f].valid
       \/ \E f \in ListReaders : listCache[f].valid
    /\ dfCache' = [f \in DfReaders |->
          IF dfCache[f].valid /\ dfCache[f].age + TickSeconds < ttl(f)
          THEN [dfCache[f] EXCEPT !.age = @ + TickSeconds]
          ELSE NoDfEntry]
    /\ listCache' = [f \in ListReaders |->
          IF listCache[f].valid /\ listCache[f].age + TickSeconds < ttl(f)
          THEN [listCache[f] EXCEPT !.age = @ + TickSeconds,
                                    !.fetched = @ + TickSeconds]
          ELSE NoListEntry]
    /\ UNCHANGED <<ledgerVars, reconVars, otherVars, writes, ops, clockVars, sheetVars, sessionVars>>

\* ------------------------------------------------------ expiry management
\* (expiry - pd.Timestamp.now()).dt.days: an expiry date is midnight of its
\* day, now carries the time of day, and Timedelta.days rounds down.
DaysUntilExpiry(expiry_date) ==
    (expiry_date.day * 24 - (nowDay * 24 + nowHour)) \div 24

\* The status lambda of the display table.
ExpiryStatus(days) ==
    IF days < 0 THEN "Expired"
    ELSE IF days <= 7 THEN "Critical"
    ELSE IF days <= 30 THEN "Warning"
    ELSE "Normal"

\* inward_df[inward_df['Expiry Date'].notna()]
expiry_items == SelectSeq(inward, LAMBDA r : r.ExpiryDate.valid)

\* "Categorize items by expiry status"
expired_items ==
    SelectSeq(expiry_items, LAMBDA r : DaysUntilExpiry(r.ExpiryDate) < 0)
critical_items ==
    SelectSeq(expiry_items,
        LAMBDA r : DaysUntilExpiry(r.ExpiryDate) >= 0 /\ DaysUntilExpiry(r.ExpiryDate) <= 7)
warning_items ==
    SelectSeq(expiry_items,
        LAMBDA r : DaysUntilExpiry(r.ExpiryDate) > 7 /\ DaysUntilExpiry(r.ExpiryDate) <= 30)
normal_items ==
    SelectSeq(expiry_items, LAMBDA r : DaysUntilExpiry(r.ExpiryDate) > 30)

\* The Dashboard's "Expiry Alert": rows whose cell is neither NaN nor '',
\* coerced, the NaT rows dropped, and the date compared with today + 30 days.
AlertWindowDays == 30
expiring_soon ==
    SelectSeq(SelectSeq(SelectSeq(inward, LAMBDA r : ~r.ExpiryDate.blank),
                        LAMBDA r : r.ExpiryDate.valid),
              LAMBDA r : r.ExpiryDate.day <= nowDay + AlertWindowDays)

\* GoogleSheetsManager.generate_expiry_report: the non-blank rows are
\* converted by pd.to_datetime without errors='coerce', which raises on a
\* cell that is no date; the except branch returns an empty DataFrame.
ReportWindowDays == 30
generate_expiry_report ==
    LET expiry_df == SelectSeq(inward, LAMBDA r : ~r.ExpiryDate.blank)
    IN IF \E i \in 1..Len(expiry_df) : ~expiry_df[i].ExpiryDate.valid
       THEN [raised |-> TRUE, rows |-> <<>>]
       ELSE [raised |-> FALSE,
             rows |-> SelectSeq(expiry_df,
                         LAMBDA r : r.ExpiryDate.day - nowDay <= ReportWindowDays)]

\* The Status column of the page's table for the DataFrame it read: one
\* label per row that survives notna(), in row order.
ExpiryLabels(inward_df) ==
    LET items == SelectSeq(inward_df, LAMBDA r : r.ExpiryDate.valid)
    IN [i \in 1..Len(items) |-> ExpiryStatus(DaysUntilExpiry(items[i].ExpiryDate))]

\* The Expiry Management page runs: it reads get_cached_inward_data(),
\* converts the 'Expiry Date' column of the copy it got and shows the
\* labels.  The cached entry and the sheet are not written.
ViewExpiryManagement(fetched_ok) ==
    /\ ops < MaxOps
    /\ dfCache["inward"].valid => fetched_ok
    /\ LET entry == DfEntryFor("inward", fetched_ok)
       IN /\ dfCache' = [dfCache EXCEPT !["inward"] = entry]
          /\ expiryView' = [seen |-> TRUE, day |-> nowDay, rows |-> entry.data,
                            labels |-> ExpiryLabels(entry.data)]
    /\ ops' = ops + 1
    /\ UNCHANGED <<ledgerVars, reconVars, otherVars, listCache, writes,
                   clockVars, sheetVars, indentSession, headerCall, masterVars, closingVars>>

\* The wall clock advances.
ClockTick ==
    /\ nowDay + (nowHour + TickHours) \div 24 <= MaxDay
    /\ nowDay' = nowDay + (nowHour + TickHours) \div 24
    /\ nowHour' = (nowHour + TickHours) % 24
    /\ UNCHANGED <<ledgerVars, reconVars, otherVars, cacheVars, ops, sheetVars, sessionVars>>

\* ------------------------------------------------------ specifications
\* The four ledger registers under the submit handlers.
NextLedger ==
    \/ \E m \in Materials, g \in Grades, q \in Quantities, r \in Rates :
          InwardSubmit(m, g, q, "Kg", r, NoDate)
    \/ \E m \in Materials, q \in Quantities, r \in Rates :
          InwardRowTyped(m, "", q, "Kg", r, NoDate)
    \/ \E m \in Materials, g \in Grades :
          OutwardSubmit(m, g, 4, "Kg")
    \/ \E m \in Materials, g \in Grades :
          ReturnsSubmit(m, g, 4)
    \/ \E m \in Materials, g \in Grades :
          DamageSubmit(m, g, 4)

SpecLedger == Init /\ [][NextLedger]_vars

\* Inward and outward rows with low stock limits.
NextStatus ==
    \/ \E m \in Materials, g \in Grades, q \in Quantities :
          InwardSubmit(m, g, q, "Kg", 6, NoDate)
    \/ \E m \in Materials, q \in Quantities :
          InwardRowTyped(m, "", q, "Kg", 6, NoDate)
    \/ \E m \in Materials, g \in Grades, q \in Quantities :
          OutwardSubmit(m, g, q, "Kg")
    \/ \E m \in Materials, g \in Grades, l \in LimitValues :
          LowStockLimitRowAdded(m, g, l)

SpecStatus == Init /\ [][NextStatus]_vars

\* Inward and outward rows with reconciliation submissions.
NextRecon ==
    \/ \E g \in Grades, q \in Quantities :
          InwardSubmit("Steel", g, q, "Kg", 6, NoDate)
    \/ \E q \in Quantities :
          InwardRowTyped("Steel", "", q, "Kg", 6, NoDate)
    \/ \E g \in Grades, u \in Units :
          OutwardSubmit("Steel", g, 4, u)
    \/ SubmitReconciliation(nowDay, "Site Engineer")

SpecRecon == Init /\ [][NextRecon]_vars

\* Inward rows with expiry dates under a running clock.
NextExpiry ==
    \/ \E d \in ExpiryDays : InwardSubmit("Cement", "OPC 53", 4, "Bags", 6, Date(d))
    \/ InwardSubmit("Cement", "OPC 53", 4, "Bags", 6, NoDate)
    \/ ClockTick

SpecExpiry == Init /\ [][NextExpiry]_vars

\* Inward rows with a valid, a blank or an unparseable expiry cell under a
\* running clock.
NextExpiryReport ==
    \/ \E d \in ExpiryDays : InwardSubmit("Cement", "OPC 53", 4, "Bags", 6, Date(d))
    \/ InwardSubmit("Cement", "OPC 53", 4, "Bags", 6, NoDate)
    \/ \E q \in Quantities :
          InwardRowTyped("Cement", "OPC 53", q, "Bags", 6, Unparseable)
    \/ ClockTick

SpecExpiryReport == Init /\ [][NextExpiryReport]_vars

\* The Expiry Management page opened again and again while rows arrive and
\* the clock runs.
NextExpiryView ==
    \/ \E d \in ExpiryDays : InwardSubmit("Cement", "OPC 53", 4, "Bags", 6, Date(d))
    \/ InwardSubmit("Cement", "OPC 53", 4, "Bags", 6, NoDate)
    \/ \E fetched_ok \in BOOLEAN : ViewExpiryManagement(fetched_ok)
    \/ ClockTick

SpecExpiryView == Init /\ [][NextExpiryView]_vars

\* Every write handler with the six cached readers and the cache clock.
NextCache ==
    \/ /\ writes < MaxCacheWrites
       /\ \/ \E v \in VendorNames : AddVendor(v, "Steel", "10mm")
          \/ InwardSubmit("Steel", "10mm", 4, "Kg", 6, NoDate)
          \/ OutwardSubmit("Steel", "10mm", 4, "Kg")
          \/ ReturnsSubmit("Steel", "10mm", 4)
          \/ DamageSubmit("Steel", "10mm", 4)
          \/ \E verified \in BOOLEAN : BOQSubmit("BOQ-001", "Steel", 4, verified)
          \/ IndentSubmit("IND-001", "Steel", 4)
          \/ TransferSubmit("TRF-001", "Steel", "10mm", 4)
          \/ ScrapSubmit("SCRAP-001", "Steel", 4)
          \/ UpdateIndentStatus("IND-001", "Approved")
          \/ UpdateTransferStatus("TRF-001", "Delivered")
          \/ UpdateScrapStatus("SCRAP-001", "Sold")
    \/ \E fetched_ok \in BOOLEAN :
          \/ get_cached_inward_data(fetched_ok)
          \/ get_cached_vendor_data(fetched_ok)
          \/ get_cached_outward_data(fetched_ok)
          \/ get_cached_vendors_list(fetched_ok)
          \/ get_cached_materials_list(fetched_ok)
          \/ get_cached_grades_list(fetched_ok)
    \/ CacheTick

SpecCache == Init /\ [][NextCache]_vars

\* Submissions, accepted and rejected, over a register into which a row
\* with a blank Grade cell was typed.
NextValidation ==
    \/ \E q \in Quantities : InwardRowTyped("Steel", "", q, "Kg", 6, NoDate)
    \/ \E g \in Grades, q \in Quantities :
          InwardSubmit("Steel", g, q, "Kg", 6, NoDate)
    \/ \E filled \in BOOLEAN : InwardRejected("Steel", 4, 6, filled)
    \/ \E g \in Grades, q \in Quantities : DamageSubmit("Steel", g, q)
    \/ \E q \in {0} \cup Quantities, filled \in BOOLEAN :
          DamageRejected("Steel", q, filled)
    \/ \E v \in VendorNames, g \in Grades : AddVendor(v, "Steel", g)
    \/ \E v \in {""} \cup VendorNames, g \in Grades, filled \in BOOLEAN :
          AddVendorRejected(v, "Steel", g, filled)

SpecValidation == Init /\ [][NextValidation]_vars

\* The stock aggregation over an Inward Register that also holds rows with
\* a non-numeric Quantity cell.
NextMalformed ==
    \/ \E m \in Materials, q \in Quantities :
          InwardSubmit(m, "10mm", q, "Kg", 6, NoDate)
    \/ \E m \in Materials : InwardTextRowTyped(m, "10mm", "Kg", 6)
    \/ \E m \in Materials : OutwardSubmit(m, "10mm", 4, "Kg")

SpecMalformed == Init /\ [][NextMalformed]_vars

\* The 'Outward Register' worksheet under the Issue Material form and the
\* pages that reconcile its header row, with every backend outcome.
NextSheet ==
    \/ \E q \in Quantities, outcome \in BackendOutcomes :
          OutwardSubmitWith("Steel", "10mm", q, "Kg", outcome)
    \/ \E outcome \in BackendOutcomes : ViewReconciliation(outcome)
    \/ \E outcome \in BackendOutcomes : ViewStockSummary(outcome)

SpecSheet == Init /\ [][NextSheet]_vars

\* The indent, transfer and scrap pages (submission and status update)
\* next to the Inward and Outward forms.
IndentNumbers == {"IND-001", "IND-002"}
TransferNumbers == {"TRF-001", "TRF-002"}
NextWorkflow ==
    \/ InwardSubmit("Steel", "10mm", 10, "Kg", 6, NoDate)
    \/ OutwardSubmit("Steel", "10mm", 4, "Kg")
    \/ \E n \in IndentNumbers : IndentSubmit(n, "Steel", 4)
    \/ \E n \in TransferNumbers : TransferSubmit(n, "Steel", "10mm", 4)
    \/ ScrapSubmit("SCRAP-001", "Steel", 4)
    \/ \E n \in IndentNumbers, st \in {"Approved", "Rejected"} :
          UpdateIndentStatus(n, st)
    \/ \E n \in TransferNumbers : UpdateTransferStatus(n, "Delivered")
    \/ UpdateScrapStatus("SCRAP-001", "Sold")

SpecWorkflow == Init /\ [][NextWorkflow]_vars

\* One session updating an indent status step by step while other users
\* add, insert and delete rows of 'Indent Register'.
NextStale ==
    \/ \E n \in IndentNumbers : IndentSubmit(n, "Steel", 4)
    \/ \E n \in IndentNumbers, st \in {"Approved", "Rejected"} :
          ReadIndentsForUpdate(n, st)
    \/ \E i \in 1..MaxOps : IndentRowDeleted(i)
    \/ \E i \in 1..MaxOps, n \in IndentNumbers : IndentRowInserted(i, n)
    \/ UpdateCellIndent

SpecStale == Init /\ [][NextStale]_vars

\* Two sessions calling get_or_create_worksheet('Outward Register', ...)
\* request by request, between issues made while no call is under way.
NextHeaderRace ==
    \/ /\ \A s \in Sessions : headerCall[s].pc = "idle"
       /\ \E q \in Quantities : OutwardSubmit("Steel", "10mm", q, "Kg")
    \/ \E s \in Sessions, headers \in {OutwardHeaders10, OutwardHeaders12} :
          RowValuesStep(s, headers)
    \/ \E s \in Sessions : DeleteRowsStep(s)
    \/ \E s \in Sessions : InsertRowStep(s)

SpecHeaderRace == Init /\ [][NextHeaderRace]_vars

\* One session on empty master sheets: init_sheets_manager first, then
\* materials and grades are added.
NextMaster ==
    \/ /\ ~masterInit
       /\ \E read_ok \in BOOLEAN : initialize_default_materials_and_grades(read_ok)
    \/ /\ masterInit
       /\ \E name \in MaterialNameInputs, read_ok \in BOOLEAN :
             add_new_material(name, "Stone", read_ok)
    \/ /\ masterInit
       /\ \E name \in GradeNameInputs, read_ok \in BOOLEAN :
             add_new_grade(name, "Concrete", read_ok)

SpecMaster == Init /\ [][NextMaster]_vars

\* The master sheets over several sessions: every start of the application
\* runs the initialization again, on whatever the sheets hold by then.
NextMasterRestart ==
    \/ \E read_ok \in BOOLEAN : initialize_default_materials_and_grades(read_ok)
    \/ \E name \in MaterialNameInputs, read_ok \in BOOLEAN :
          add_new_material(name, "Stone", read_ok)
    \/ \E name \in GradeNameInputs, read_ok \in BOOLEAN :
          add_new_grade(name, "Concrete", read_ok)

SpecMasterRestart == Init /\ [][NextMasterRestart]_vars

\* Daily closings saved for two dates.
NextClosing ==
    \E daily_closing_df \in ClosingFrames, closing_date \in ClosingDates,
       outcome \in SaveOutcomes :
        SaveDailyClosing(daily_closing_df, closing_date, outcome)

SpecClosing == Init /\ [][NextClosing]_vars

\* ---------------------------------------------------------------- claims
Keys == Materials \X Grades

RowsOfKey(rows, k) == SelectSeq(rows, LAMBDA r : r.Material = k[1] /\ r.Grade = k[2])

\* inward + returns - outward - losses of one MaterialKey, from the registers.
LedgerBalance(k) ==
    SumQuantity(RowsOfKey(inward, k)) + SumQuantity(RowsOfKey(returns, k))
    - SumQuantity(RowsOfKey(outward, k)) - SumQuantity(RowsOfKey(damage, k))

\* Sum(quantity x rate) / Sum(quantity) over the inward rows of one key.
WeightedAvgRate(k) ==
    Frac(SumAmountCalc(RowsOfKey(inward, k)), SumQuantity(RowsOfKey(inward, k)))

\* C1: for every MaterialKey the current stock that calculate_material_stock
\* produces equals total inward + total returns - total outward - total
\* losses of that key, negative results included.
C1_CurrentStockIsLedgerBalance ==
    \A k \in Keys :
        calculate_material_stock(k[1], k[2]).ok
            => calculate_material_stock(k[1], k[2]).current_stock = LedgerBalance(k)

\* C8: for every MaterialKey with total inward > 0 the weighted-average rate
\* is Sum(quantity x rate) / Sum(quantity) over the inward rows of that key
\* only, and the stock value is current stock x that rate.
C8_WeightedAverageOverKeyRows ==
    \A k \in Keys :
        LET p == calculate_material_stock(k[1], k[2])
        IN SumQuantity(RowsOfKey(inward, k)) > 0
            => /\ p.ok
               /\ FracEq(p.avg_rate, WeightedAvgRate(k))
               /\ FracEq(p.stock_value,
                         Frac(p.current_stock * WeightedAvgRate(k).num,
                              WeightedAvgRate(k).den))

\* C9: a MaterialKey with outward rows and no inward row gets a StockPosition
\* (not an error): current stock = -(total outward), unit "Units", rate 0 and
\* value 0, also when the Inward Register has no rows at all.
C9_OutwardOnlyKeyGetsPosition ==
    \A k \in Keys :
        (RowsOfKey(outward, k) # <<>> /\ RowsOfKey(inward, k) = <<>>)
            => LET p == calculate_material_stock(k[1], k[2])
               IN /\ p.ok
                  /\ p.current_stock = 0 - SumQuantity(RowsOfKey(outward, k))
                  /\ p.unit = "Units"
                  /\ FracEq(p.avg_rate, FracZero)
                  /\ FracEq(p.stock_value, FracZero)

\* C10: the stock of (material, empty grade) aggregates only the rows of that
\* material whose grade is empty.
C10_EmptyGradeIsItsOwnKey ==
    \A m \in Materials :
        LET p == calculate_material_stock(m, "")
        IN p.ok => /\ p.total_inward = SumQuantity(RowsOfKey(inward, <<m, "">>))
                   /\ p.total_outward = SumQuantity(RowsOfKey(outward, <<m, "">>))

\* The limit rows of one key in the 'Low Stock Limits' sheet.
LimitRowsOf(material, grade) ==
    SelectSeq(limits, LAMBDA r : r.Material = material /\ r.Grade = grade)

SeqRange(seq) == {seq[i] : i \in 1..Len(seq)}

\* C6: a MaterialKey whose current stock is <= 0 has status "Out of Stock",
\* for every configured low stock limit and when none is configured.
C6_OutOfStockWhenNotPositive ==
    /\ \A e \in SeqRange(calculate_all_material_stock) :
          e.CurrentStock <= 0 => e.Status = "Out of Stock"
    /\ \A e \in SeqRange(calculate_all_material_stock), t \in LimitValues :
          e.CurrentStock <= 0
              => calculate_stock_status(e.CurrentStock, t) = "Out of Stock"

\* C6 witness: a listed key with stock <= 0 and a positive limit configured.
C6_Witness ==
    \E e \in SeqRange(calculate_all_material_stock) :
        /\ e.CurrentStock <= 0
        /\ \E r \in SeqRange(LimitRowsOf(e.Material, e.Grade)) : r.LowStockLimit > 0
        /\ e.Status = "Out of Stock"

CalendarClass(days) ==
    IF days < 0 THEN "Expired"
    ELSE IF days <= 7 THEN "Critical"
    ELSE IF days <= 30 THEN "Warning"
    ELSE "Normal"

\* C5: every inward row with a valid expiry date is classified by
\* expiry date - today's date in whole calendar days (Expired < 0,
\* Critical 0..7, Warning 8..30, Normal > 30), at any time of day: both the
\* status label and the category the row is counted in.
C5_ExpiryStatusByCalendarDays ==
    \A r \in SeqRange(expiry_items) :
        LET class == CalendarClass(r.ExpiryDate.day - nowDay)
        IN /\ ExpiryStatus(DaysUntilExpiry(r.ExpiryDate)) = class
           /\ (r \in SeqRange(expired_items)) <=> (class = "Expired")
           /\ (r \in SeqRange(critical_items)) <=> (class = "Critical")
           /\ (r \in SeqRange(warning_items)) <=> (class = "Warning")
           /\ (r \in SeqRange(normal_items)) <=> (class = "Normal")

LastAppended == SubSeq(recon, lastRecon.before + 1, Len(recon))

SameItem(row, item) ==
    /\ row.Material = item.Material /\ row.Grade = item.Grade /\ row.Unit = item.Unit
    /\ row.TheoreticalStock = item.Theoretical
    /\ row.ActualStock = item.Actual
    /\ row.Variance = item.Variance

\* C3: in a reconciliation submission the variance of every item is
\* actual - theoretical; no item with actual = 0 and variance = 0 produces a
\* record; and when the submission completes, exactly the items with
\* actual > 0 or variance # 0 produce one record each.
C3_RecordIffCountedOrVariance ==
    lastRecon.outcome # "none" =>
        LET items == SeqRange(lastRecon.data)
            wanted == {d \in items : d.Actual > 0 \/ d.Actual - d.Theoretical # 0}
        IN /\ \A d \in items : d.Variance = d.Actual - d.Theoretical
           /\ \A r \in SeqRange(LastAppended) : \E d \in wanted : SameItem(r, d)
           /\ lastRecon.outcome = "ok" =>
                 /\ \A d \in wanted : \E r \in SeqRange(LastAppended) : SameItem(r, d)
                 /\ Len(LastAppended) = Cardinality(wanted)

\* C3 witness: a completed submission in which an item with actual 0 and
\* theoretical 0 left no record while an item with a variance did.
C3_Witness ==
    /\ lastRecon.outcome = "ok"
    /\ \E d \in SeqRange(lastRecon.data) :
          /\ d.Actual = 0 /\ d.Theoretical = 0
          /\ \A r \in SeqRange(LastAppended) : ~SameItem(r, d)
    /\ \E d \in SeqRange(lastRecon.data) :
          /\ d.Actual > 0 /\ d.Variance < 0
          /\ \E r \in SeqRange(LastAppended) : SameItem(r, d)

\* C4: the theoretical stock written into a ReconciliationRecord equals the
\* current stock the aggregation computes for the record's (material, grade)
\* from the registers at submission time.
C4_TheoreticalIsAggregatedStock ==
    [][\A i \in (Len(recon) + 1)..Len(recon') :
          calculate_material_stock(recon'[i].Material, recon'[i].Grade).ok
              => recon'[i].TheoreticalStock =
                   calculate_material_stock(recon'[i].Material, recon'[i].Grade).current_stock
      ]_vars

\* The data rows of every register.
registers == <<inward, outward, returns, damage, limits, recon,
               vendor, boq, indent, transfer, scrap>>

\* C11: a submission with a required (starred) field missing or a required
\* quantity not positive is rejected and writes nothing: whichever branch of
\* the Add Inward Entry, Record Damage/Loss or Add Vendor handler the step
\* takes, every register is the same before and after it.  Material, Grade,
\* Vendor Name and the quantity are the starred inputs; filled says that the
\* remaining starred inputs of the form were given.
C11_RejectedSubmissionWritesNothing ==
    [][\A g \in Grades, q \in {0} \cup Quantities, filled \in BOOLEAN :
          /\ LET missing == g = "" \/ q <= 0 \/ ~filled
                 submitted ==
                     \/ filled /\ InwardSubmit("Steel", g, q, "Kg", 6, NoDate)
                     \/ InwardRejected("Steel", q, 6, filled)
                     \/ filled /\ DamageSubmit("Steel", g, q)
                     \/ DamageRejected("Steel", q, filled)
             IN (missing /\ submitted) => UNCHANGED registers
          /\ \A v \in {""} \cup VendorNames :
             LET missing == v = "" \/ g = "" \/ ~filled
                 submitted ==
                     \/ filled /\ AddVendor(v, "Steel", g)
                     \/ AddVendorRejected(v, "Steel", g, filled)
             IN (missing /\ submitted) => UNCHANGED registers]_vars

\* C12: a row with a non-numeric quantity is skipped and the rest is summed:
\* once both registers have rows, every (Material, Grade) of the Inward
\* Register has an entry in the aggregation result, and its current stock is
\* the sum of its well-formed inward rows minus its outward rows.
C12_MalformedRowIsSkipped ==
    (inward # <<>> /\ outward # <<>>) =>
        \A i \in 1..Len(inward) :
            LET m == inward[i].Material
                g == inward[i].Grade
                wellFormed == SelectSeq(FilterByKey(inward, m, g),
                                        LAMBDA r : r.Numeric)
                expected == SumQuantity(wellFormed)
                                - SumQuantity(FilterByKey(outward, m, g))
            IN \E e \in SeqRange(calculate_all_material_stock) :
                  e.Material = m /\ e.Grade = g /\ e.CurrentStock = expected

\* The rows a submission is to append, in order: one per item of
\* reconciliation_data with a count or a variance.
RowsToAppend(data, recon_date) ==
    LET wanted == SelectSeq(data, LAMBDA d : d.Actual > 0 \/ d.Variance # 0)
    IN [i \in 1..Len(wanted) |->
           [Date |-> recon_date, Material |-> wanted[i].Material,
            Grade |-> wanted[i].Grade, Unit |-> wanted[i].Unit,
            TheoreticalStock |-> wanted[i].Theoretical,
            ActualStock |-> wanted[i].Actual, Variance |-> wanted[i].Variance]]

\* C13: when the j-th append of a reconciliation batch fails, the register
\* afterwards is the register before followed by the first j - 1 rows of the
\* batch (they stay, the failing row and the rows after it are missing), and
\* the submission changes nothing else: its outcome is the error.
C13_PartialBatchIsKept ==
    [][(SubmitReconciliation(nowDay, "Site Engineer")
           /\ lastRecon'.outcome = "error") =>
          /\ lastRecon'.failAt \in 1..Len(RowsToAppend(lastRecon'.data, nowDay))
          /\ recon' = recon \o SubSeq(RowsToAppend(lastRecon'.data, nowDay),
                                      1, lastRecon'.failAt - 1)
          /\ UNCHANGED <<ledgerVars, otherVars, cacheVars, clockVars, sheetVars, sessionVars>>]_vars

\* C13 witness: a failed submission of a batch of two rows or more that left
\* its first row in the register and did not write its last one.
C13_Witness ==
    /\ lastRecon.outcome = "error"
    /\ lastRecon.failAt >= 2
    /\ Len(RowsToAppend(lastRecon.data, nowDay)) >= lastRecon.failAt
    /\ Len(recon) = lastRecon.before + lastRecon.failAt - 1
    /\ recon[lastRecon.before + 1] = RowsToAppend(lastRecon.data, nowDay)[1]

\* C14: the Reconciliation Register holds at most one record per
\* (reconciliation date, material, grade).
C14_OneRecordPerDateAndKey ==
    \A i, j \in 1..Len(recon) :
        (/\ recon[i].Date = recon[j].Date
         /\ recon[i].Material = recon[j].Material
         /\ recon[i].Grade = recon[j].Grade) => i = j

\* The data rows of the 'Outward Register' worksheet, top to bottom.
DataRowsOf(worksheet) == SelectSeq(worksheet, LAMBDA r : r.kind = "data")

IsPrefix(a, b) == Len(a) <= Len(b) /\ SubSeq(b, 1, Len(a)) = a

\* C15: the register is append-only: in every step each data row that was
\* in the worksheet is still there, unchanged and in the same order, and
\* new data rows come after them.
C15_RegisterIsAppendOnly ==
    [][IsPrefix(DataRowsOf(outwardSheet), DataRowsOf(outwardSheet'))]_vars

\* C16: a get_or_create_worksheet call on the existing worksheet leaves its
\* data rows as they were, whatever the outcome of row_values, delete_rows
\* and insert_row: a page that only makes this call changes no data row.
C16_HeaderCallKeepsDataRows ==
    [][(\E outcome \in BackendOutcomes :
            ViewReconciliation(outcome) \/ ViewStockSummary(outcome))
         => DataRowsOf(outwardSheet') = DataRowsOf(outwardSheet)]_vars

\* C17: while row 1 of the worksheet is a header row, every data row below
\* it is aligned with it: the row has no more cells than the header, and
\* its i-th cell holds the value of the field the i-th header names.
C17_RowsAlignedWithHeader ==
    (outwardSheet # <<>> /\ outwardSheet[1].kind = "header") =>
        \A n \in 2..Len(outwardSheet) :
            outwardSheet[n].kind = "data" =>
                /\ Len(outwardSheet[n].cells) <= Len(outwardSheet[1].cells)
                /\ \A i \in 1..Len(outwardSheet[n].cells) :
                      outwardSheet[n].cells[i] = outwardSheet[1].cells[i]

\* before and after differ in at most the Status cell of one row, a row
\* whose business number (field key) is selected, and that cell now holds
\* status.
OneStatusCellSet(before, after, key, selected, status) ==
    /\ Len(after) = Len(before)
    /\ \E i \in 1..Len(before) :
          /\ before[i][key] = selected
          /\ after[i].Status = status
          /\ \A f \in DOMAIN before[i] \ {"Status"} : after[i][f] = before[i][f]
          /\ \A j \in 1..Len(before) : j # i => after[j] = before[j]

\* C18: a status update of a selected Indent, Transfer or Scrap Number sets
\* the Status cell of one row carrying that number to the chosen status and
\* changes no other cell of that register and no other register.
C18_StatusUpdateSetsOneCell ==
    [][/\ \A n \in IndentNumbers, st \in {"Approved", "Rejected"} :
             UpdateIndentStatus(n, st) =>
                 /\ OneStatusCellSet(indent, indent', "IndentNumber", n, st)
                 /\ UNCHANGED <<ledgerVars, recon, vendor, boq, transfer, scrap,
                                outwardSheet>>
       /\ \A n \in TransferNumbers :
             UpdateTransferStatus(n, "Delivered") =>
                 /\ OneStatusCellSet(transfer, transfer', "TransferNumber", n,
                                     "Delivered")
                 /\ UNCHANGED <<ledgerVars, recon, vendor, boq, indent, scrap,
                                outwardSheet>>
       /\ UpdateScrapStatus("SCRAP-001", "Sold") =>
             /\ OneStatusCellSet(scrap, scrap', "ScrapNumber", "SCRAP-001", "Sold")
             /\ UNCHANGED <<ledgerVars, recon, vendor, boq, indent, transfer,
                            outwardSheet>>]_vars

\* C18 witness: two indents carry the same Indent Number and a status update
\* has changed the first of them only.
C18_Witness ==
    \E i, j \in 1..Len(indent) :
        /\ i < j
        /\ indent[i].IndentNumber = indent[j].IndentNumber
        /\ indent[i].Status = "Approved"
        /\ indent[j].Status = "Pending"

\* C19: creating a transfer of quantity 4 for (Steel, 10mm) lowers the
\* current stock the aggregation reports for that key by 4.
C19_TransferLowersStock ==
    [][\A n \in TransferNumbers :
          (/\ TransferSubmit(n, "Steel", "10mm", 4)
           /\ calculate_material_stock("Steel", "10mm").ok) =>
              /\ calculate_material_stock("Steel", "10mm")'.ok
              /\ calculate_material_stock("Steel", "10mm")'.current_stock
                    = calculate_material_stock("Steel", "10mm").current_stock - 4]_vars

\* C20: creating a transfer appends exactly one row, with Status
\* "In Transit", to the Material Transfer Register and changes the data rows
\* of no other register, the Inward Register included.
C20_TransferAppendsOneRow ==
    [][\A n \in TransferNumbers :
          TransferSubmit(n, "Steel", "10mm", 4) =>
              /\ Len(transfer') = Len(transfer) + 1
              /\ SubSeq(transfer', 1, Len(transfer)) = transfer
              /\ transfer'[Len(transfer')].TransferNumber = n
              /\ transfer'[Len(transfer')].Status = "In Transit"
              /\ UNCHANGED <<inward, outward, returns, damage, limits, recon,
                             vendor, boq, indent, scrap, outwardSheet>>]_vars

\* C20 witness: a transfer was created while the Inward Register held one
\* row, and it still holds that one row.
C20_Witness ==
    /\ Len(inward) = 1
    /\ Len(transfer) >= 1
    /\ transfer[Len(transfer)].Status = "In Transit"
    /\ writes = Len(inward) + Len(transfer)

\* ---------------------------------------------------------------- C21
\* C21: an inward row whose expiry cell is blank or unparseable is in no
\* expiry class, in no expiry alert and in no expiry report, and it does
\* not keep a row with a valid date from being classified and reported:
\* every valid row is in exactly one class of the Expiry Management page,
\* and one that expires within 30 days is in the Dashboard alert and in
\* the 30-day expiry report.
ExpiryClasses == <<expired_items, critical_items, warning_items, normal_items>>
C21_UndatedRowsAreLeftOut ==
    \A i \in 1..Len(inward) :
        LET r == inward[i]
        IN IF ~r.ExpiryDate.valid
           THEN /\ \A c \in 1..4 : r \notin SeqRange(ExpiryClasses[c])
                /\ r \notin SeqRange(expiring_soon)
                /\ r \notin SeqRange(generate_expiry_report.rows)
           ELSE /\ Cardinality({c \in 1..4 : r \in SeqRange(ExpiryClasses[c])}) = 1
                /\ r.ExpiryDate.day - nowDay <= 30 =>
                      /\ r \in SeqRange(expiring_soon)
                      /\ r \in SeqRange(generate_expiry_report.rows)

\* ---------------------------------------------------------------- C22
\* C22: when the Expiry Management page runs again over the same inward
\* rows on the same calendar day ("today"), every row gets the label it got
\* in the previous run; and a run changes neither the register nor the
\* cached table a later run reads.
C22_ClassificationIsIdempotent ==
    [][\A fetched_ok \in BOOLEAN :
           ViewExpiryManagement(fetched_ok) =>
               /\ (expiryView.seen /\ expiryView.rows = expiryView'.rows
                      /\ expiryView.day = nowDay) =>
                     expiryView'.labels = expiryView.labels
               /\ inward' = inward
               /\ dfCache["inward"].valid => dfCache' = dfCache]_vars

\* ---------------------------------------------------------------- C23
\* C23: the update_cell of a status update writes to the sheet position
\* computed from the session's own read (read position + 2), whatever row
\* is there by then; it changes a row other than one with the selected
\* business number only if another user inserted or deleted a row at or
\* above that position between the read and the update.
C23_UpdateHitsStalePosition ==
    [][UpdateCellIndent =>
          LET row == indentSession.sheet_row - 1
          IN /\ row <= Len(indent) =>
                   indent' = [indent EXCEPT ![row].Status = indentSession.new_status]
             /\ (row > Len(indent)
                   \/ indent[row].IndentNumber # indentSession.selected) =>
                   indentSession.shifted]_vars

\* A finished update whose cell belongs to a row of another indent.
C23_Witness ==
    /\ indentSession.done
    /\ indentSession.hit # ""
    /\ indentSession.hit # indentSession.selected
    /\ \E i \in 1..Len(indent) :
          /\ indent[i].IndentNumber = indentSession.hit
          /\ indent[i].Status = indentSession.new_status
    /\ \E i \in 1..Len(indent) :
          /\ indent[i].IndentNumber = indentSession.selected
          /\ indent[i].Status = "Pending"

\* ---------------------------------------------------------------- C24
\* C24: when 'Low Stock Limits' holds several rows for one key,
\* get_low_stock_limit returns the limit of the first of them, and a row
\* appended later for a key that already has a row leaves the limit
\* returned for every such key as it was.
C24_FirstLimitRowWins ==
    [][\A m \in Materials, g \in Grades, l \in LimitValues :
           LowStockLimitRowAdded(m, g, l) =>
               \A k \in Keys :
                   /\ LimitRowsOf(k[1], k[2]) # <<>> =>
                         get_low_stock_limit(k[1], k[2])' = get_low_stock_limit(k[1], k[2])
                   /\ LimitRowsOf(k[1], k[2])' # <<>> =>
                         get_low_stock_limit(k[1], k[2])' =
                             [has |-> TRUE,
                              value |-> LimitRowsOf(k[1], k[2])'[1].LowStockLimit]]_vars

\* Two rows with different limits for one key, the first one's returned.
C24_Witness ==
    \E k \in Keys :
        LET rows == LimitRowsOf(k[1], k[2])
        IN /\ Len(rows) >= 2
           /\ rows[1].LowStockLimit # rows[Len(rows)].LowStockLimit
           /\ get_low_stock_limit(k[1], k[2]) =
                 [has |-> TRUE, value |-> rows[1].LowStockLimit]

\* ---------------------------------------------------------------- C25
\* C25: once a failed backend read of get_cached_inward_data or
\* get_cached_vendor_data has stored the empty table, a read returns the
\* empty table, whatever the sheet holds and although the backend answers
\* again, and the entry stays until its 600 seconds have passed or a write
\* has run clear_cache.
FailedReadTTL == 600
C25_FailedReadIsCached ==
    [][\A f \in {"inward", "vendor"} :
           (dfCache[f].valid /\ ~dfCache[f].ok) =>
               /\ DfEntryFor(f, TRUE).data = <<>>
               /\ \/ dfCache'[f] = dfCache[f]
                  \/ /\ dfCache'[f] = [dfCache[f] EXCEPT !.age = @ + TickSeconds]
                     /\ dfCache'[f].age < FailedReadTTL
                  \/ /\ ~dfCache'[f].valid
                     /\ \/ writes' = writes + 1
                        \/ dfCache[f].age + TickSeconds >= FailedReadTTL]_vars

\* The empty table of a failed read is still served some time later while
\* the sheet holds a row.
C25_Witness ==
    \E f \in {"inward", "vendor"} :
        /\ dfCache[f].valid /\ ~dfCache[f].ok
        /\ dfCache[f].age > 0
        /\ Backend(f) # <<>>
        /\ DfEntryFor(f, TRUE).data = <<>>

\* ---------------------------------------------------------------- C26
\* C26: the list a cached list reader returns was derived from sheet
\* contents fetched no longer ago than that reader's own TTL: 60 seconds
\* for the materials and grades lists, 600 seconds for the vendors list.
C26_ListNoOlderThanItsTTL ==
    \A f \in ListReaders :
        listCache[f].valid => listCache[f].fetched <= ttl(f)

\* ---------------------------------------------------------------- C27
\* C27: when two sessions call get_or_create_worksheet on the same sheet
\* with a header that differs from row 1, then however their row_values,
\* delete_rows(1) and insert_row(headers, 1) requests interleave, once both
\* calls are over every data row written is still in the sheet and the
\* sheet has exactly one header row.
C27_ConcurrentHeaderCallsKeepRows ==
    (\A s \in Sessions : headerCall[s].pc = "idle") =>
        /\ DataRowsOf(outwardSheet) =
              [i \in 1..Len(outward) |-> DataRow(i, OutwardDataFields)]
        /\ Cardinality({n \in 1..Len(outwardSheet) :
                            outwardSheet[n].kind = "header"}) = 1

\* ---------------------------------------------------------------- C28
\* C28: in a session that started on empty master sheets, after the
\* initialization and any adds, no two rows of 'Material Master' have the
\* same Material Name and no two rows of 'Grade Master' the same
\* Grade/Specification, ignoring case and surrounding whitespace; and an
\* add of a name that exists returns (False, message) and leaves the sheet
\* as it was.
NoTwoEqual(rows, field) ==
    \A i, j \in 1..Len(rows) :
        i # j => lower(strip(rows[i][field])) # lower(strip(rows[j][field]))
NameExists(rows, field, name) ==
    \E i \in 1..Len(rows) : lower(strip(rows[i][field])) = lower(strip(name))
C28_MasterNamesAreUnique ==
    [][/\ masterInit' =>
             /\ NoTwoEqual(materialMaster', "MaterialName")
             /\ NoTwoEqual(gradeMaster', "Grade")
       /\ \A name \in MaterialNameInputs, read_ok \in BOOLEAN :
             (add_new_material(name, "Stone", read_ok)
                 /\ NameExists(materialMaster, "MaterialName", name)) =>
                   (materialMaster' = materialMaster /\ ~lastAdd'.ok)
       /\ \A name \in GradeNameInputs, read_ok \in BOOLEAN :
             (add_new_grade(name, "Concrete", read_ok)
                 /\ NameExists(gradeMaster, "Grade", name)) =>
                   (gradeMaster' = gradeMaster /\ ~lastAdd'.ok)]_vars

\* ---------------------------------------------------------------- C29
\* C29: a call of initialize_default_materials_and_grades removes no data
\* row: every row of 'Material Master' and of 'Grade Master' before the
\* call is in the sheet after it.
C29_InitializationKeepsRows ==
    [][\A read_ok \in BOOLEAN :
           initialize_default_materials_and_grades(read_ok) =>
               /\ \A i \in 1..Len(materialMaster) :
                     materialMaster[i] \in SeqRange(materialMaster')
               /\ \A i \in 1..Len(gradeMaster) :
                     gradeMaster[i] \in SeqRange(gradeMaster')]_vars

\* ---------------------------------------------------------------- C30
\* C30: after save_daily_closing(df, d) has returned True the sheet holds
\* the earlier rows of other dates, unchanged and in order, followed by
\* exactly the rows of df, and no earlier row dated d; and saving the same
\* df for the same date once more leaves the sheet as it is.
OtherDates(data, closing_date) ==
    SelectSeq(data, LAMBDA r : r.Date # closing_date)
====
